---- MODULE Spec2Model ----
(***************************************************************************)
(* PyConcatenator (src/Script.py): an interactive run of main() that       *)
(* discovers image folders, lets the user pick one, validates that every   *)
(* segment_*.png has the same canvas size, pastes the segments onto one    *)
(* canvas and saves it under concatenated/.                                *)
(*                                                                         *)
(* Strings are sequences of character codes (Python compares and sorts     *)
(* str by code point); an image is a grid of pixels, each pixel naming the *)
(* file and the position it was read from.                                 *)
(***************************************************************************)
EXTENDS Integers, Sequences, FiniteSets, TLC

VARIABLES
    pc,                 \* position of main(): which step runs next
    runNo,              \* number of the current run of the program
    now,                \* wall clock, in seconds within the modelled minute
    fs,                 \* input folders under the working directory
    output_dir_exists,  \* whether concatenated/ exists
    outputs,            \* files under concatenated/: path -> content
    image_folders,      \* main: result of find_image_folders()
    folder_input,       \* main: last answer to the folder prompt (stripped)
    selected_folder,    \* main
    segment_files,      \* main: result of find_segment_files()
    sizes_match,        \* main
    base_size,          \* main
    direction,          \* main
    output_path,        \* main: str(output_path)
    success,            \* main
    open_handles,       \* image files opened and not closed
    printed,            \* messages the steps of the run have printed
    prompt_msg,         \* what the last pass of a prompt printed on rejecting
    launched            \* command handed to subprocess.run, if any

vars == <<pc, runNo, now, fs, output_dir_exists, outputs, image_folders,
          folder_input, selected_folder, segment_files, sizes_match, base_size,
          direction, output_path, success, open_handles, printed, prompt_msg,
          launched>>

----------------------------------------------------------------------------
(* Bounds of the model *)

MaxTime == 1        \* last second of the clock
NumSuffixes == 2    \* how many of the values of randint(100, 999) are drawn
MaxRuns == 2        \* runs of the program in a row

RandLow == 100      \* random.randint(100, 999)

----------------------------------------------------------------------------
(* Strings *)

None == << >>           \* Python's None, for values that are tuples
Unbound == <<0>>        \* a local variable not assigned yet

DotSlash == <<46, 47>>                                           \* "./"
PngExt == <<46, 112, 110, 103>>                                  \* ".png"
OutputDirName ==
    <<99, 111, 110, 99, 97, 116, 101, 110, 97, 116, 101, 100>>   \* "concatenated"
DatePrefix ==
    <<50, 48, 50, 53, 48, 49, 48, 49, 95, 49, 50, 48, 48>>   \* "20250101_1200"

Min(a, b) == IF a < b THEN a ELSE b

\* Python's str < str: the first differing code point decides, a proper
\* prefix is smaller.
LexLess(a, b) ==
    \/ \E i \in 1..Min(Len(a), Len(b)) :
          /\ \A j \in 1..(i - 1) : a[j] = b[j]
          /\ a[i] < b[i]
    \/ /\ Len(a) < Len(b)
       /\ \A j \in 1..Len(a) : a[j] = b[j]

\* `sub in s` of Python
Contains(sub, s) ==
    \E i \in 0..(Len(s) - Len(sub)) :
        \A j \in 1..Len(sub) : s[i + j] = sub[j]

StartsWith(s, p) ==
    /\ Len(p) <= Len(s)
    /\ \A j \in 1..Len(p) : s[j] = p[j]

IsSpace(c) == c = 32

RECURSIVE LStrip(_)
LStrip(s) ==
    IF s # << >> /\ IsSpace(Head(s)) THEN LStrip(Tail(s)) ELSE s

RECURSIVE RStrip(_)
RStrip(s) ==
    IF s # << >> /\ IsSpace(s[Len(s)]) THEN RStrip(SubSeq(s, 1, Len(s) - 1)) ELSE s

\* str.strip()
Strip(s) == RStrip(LStrip(s))

\* str.lower() on ASCII
Lower(s) == [i \in 1..Len(s) |-> IF s[i] \in 65..90 THEN s[i] + 32 ELSE s[i]]

IsDecimalChar(c) == c \in 48..57

\* str.isdigit(): non-empty and every character has the Unicode property
\* Digit; that holds of 0-9 and also of characters such as the superscript
\* two (code 178), which int() does not accept.
IsDigit(s) ==
    /\ s # << >>
    /\ \A i \in 1..Len(s) : IsDecimalChar(s[i]) \/ s[i] = 178

\* int(s) raises ValueError unless s is a decimal literal
IntRaises(s) == \E i \in 1..Len(s) : ~IsDecimalChar(s[i])

RECURSIVE IntOf(_)
IntOf(s) ==
    IF s = << >> THEN 0
    ELSE 10 * IntOf(SubSeq(s, 1, Len(s) - 1)) + (s[Len(s)] - 48)

RECURSIVE Decimal(_)
\* f"{n}" for n >= 0
Decimal(n) ==
    IF n < 10 THEN <<48 + n>> ELSE Decimal(n \div 10) \o <<48 + (n % 10)>>

\* sorted(): the elements of S in increasing order
SortedSeq(S) ==
    LET any == CHOOSE q \in [1..Cardinality(S) -> S] :
                   \A x \in S : \E i \in 1..Cardinality(S) : q[i] = x
    IN SortSeq(any, LexLess)

\* os.path.dirname
RECURSIVE DirName(_)
DirName(p) ==
    IF p = << >> THEN << >>
    ELSE IF p[Len(p)] = 47 THEN SubSeq(p, 1, Len(p) - 1)
    ELSE DirName(SubSeq(p, 1, Len(p) - 1))

----------------------------------------------------------------------------
(* The working directory *)

\* Folder "2" and folder "a" under the working directory.
FolderNames == {<<50>>, <<97>>}
SegmentFolder == <<97>>

\* segment_<stem>.png : "1", "10", "2"
Stems == {<<49>>, <<49, 48>>, <<50>>}

\* What a segment file can hold: an image of some size; a file PIL cannot
\* identify; an image whose header reads and whose pixel data is cut short.
FileVariants ==
    { [size |-> <<2, 1>>, kind |-> "ok"],
      [size |-> <<1, 1>>, kind |-> "ok"],
      [size |-> <<2, 2>>, kind |-> "ok"],
      [size |-> <<0, 0>>, kind |-> "unreadable"],
      [size |-> <<2, 1>>, kind |-> "truncated"] }

FragmentSets == UNION { [S -> FileVariants] : S \in SUBSET Stems }

NoSegs == [s \in {} |-> [size |-> <<0, 0>>, kind |-> "ok"]]

\* Folder "a" holds the segments; folder "2" holds no segments and may hold
\* other images.
World(segs, otherImages) ==
    [n \in FolderNames |->
        IF n = SegmentFolder THEN [images |-> FALSE, segs |-> segs]
        ELSE [images |-> otherImages, segs |-> NoSegs]]

Worlds == { World(segs, b) : segs \in FragmentSets, b \in BOOLEAN }

\* the folder a path names
Resolve(path) ==
    IF StartsWith(path, DotSlash) THEN SubSeq(path, 3, Len(path)) ELSE path

\* os.path.exists
Exists(path) ==
    \/ Resolve(path) \in FolderNames
    \/ Resolve(path) = OutputDirName /\ output_dir_exists

\* the segment files of the folder at `path`
Disk(path) ==
    IF Resolve(path) \in FolderNames THEN fs[Resolve(path)].segs ELSE NoSegs

----------------------------------------------------------------------------
(* find_image_folders, find_segment_files *)

WalkRoots ==
    {<<46>>} \cup { DotSlash \o n : n \in FolderNames }
             \cup (IF output_dir_exists THEN {DotSlash \o OutputDirName} ELSE {})

HasImages(root) ==
    IF Resolve(root) \in FolderNames
    THEN fs[Resolve(root)].images \/ DOMAIN fs[Resolve(root)].segs # {}
    ELSE Resolve(root) = OutputDirName /\ DOMAIN outputs # {}

find_image_folders ==
    SortedSeq({ root \in WalkRoots :
                  ~Contains(OutputDirName, root) /\ HasImages(root) })

\* The paths differ only in the stem, so they sort as stem + ".png" does.
find_segment_files(folder_path) ==
    LET S == DOMAIN Disk(folder_path)
        q == SortedSeq({ s \o PngExt : s \in S })
    IN [i \in 1..Len(q) |-> SubSeq(q[i], 1, Len(q[i]) - 4)]

----------------------------------------------------------------------------
(* check_image_sizes *)

\* Result of check_image_sizes: the returned pair (ok, size), whether the
\* except branch ran, and the handles still open at the return.
CheckResult(ok, size, raised) ==
    [ok |-> ok, size |-> size, raised |-> raised, open |-> {}]

\* Image.open reads the header only: it raises on a file it cannot identify
\* and succeeds on one whose pixel data is cut short.
OpenRaises(f) == f.kind = "unreadable"

RECURSIVE CompareRestWidthOnly(_, _, _, _)
\* CompareRest with `img.size[0] != base_size[0]` for the comparison
CompareRestWidthOnly(file_paths, i, base, disk) ==
    IF i > Len(file_paths) THEN CheckResult(TRUE, base, FALSE)
    ELSE IF OpenRaises(disk[file_paths[i]]) THEN CheckResult(FALSE, None, TRUE)
    ELSE IF disk[file_paths[i]].size[1] # base[1]
    THEN CheckResult(FALSE, None, FALSE)
    ELSE CompareRestWidthOnly(file_paths, i + 1, base, disk)

RECURSIVE CompareRest(_, _, _, _)
\* for file_path in file_paths[1:]: with Image.open(file_path) as img: ...
CompareRest(file_paths, i, base, disk) ==
    IF i > Len(file_paths) THEN CheckResult(TRUE, base, FALSE)
    ELSE IF OpenRaises(disk[file_paths[i]]) THEN CheckResult(FALSE, None, TRUE)
    ELSE IF disk[file_paths[i]].size # base THEN CheckResult(FALSE, None, FALSE)
    ELSE CompareRest(file_paths, i + 1, base, disk)

check_image_sizes(file_paths, disk) ==
    IF file_paths = << >> THEN CheckResult(FALSE, None, FALSE)
    ELSE IF OpenRaises(disk[file_paths[1]]) THEN CheckResult(FALSE, None, TRUE)
    ELSE CompareRest(file_paths, 2, disk[file_paths[1]].size, disk)

----------------------------------------------------------------------------
(* concatenate_images *)

Blank == << >>      \* a transparent pixel of Image.new('RGBA', ...)

NoImage == [size |-> <<0, 0>>, px |-> [p \in {} |-> Blank]]

\* Image.new('RGBA', (w, h))
NewImage(w, h) ==
    [size |-> <<w, h>>, px |-> [p \in (0..(w - 1)) \X (0..(h - 1)) |-> Blank]]

\* The pixels of the image stored in file `stem`
Pixel(stem, x, y) == <<stem, x, y>>

\* result_img.paste(img, at): copies img over the region at `at`, clipped to
\* the canvas.
Paste(canvas, stem, size, at) ==
    [canvas EXCEPT !.px =
        [p \in DOMAIN canvas.px |->
            IF /\ p[1] - at[1] \in 0..(size[1] - 1)
               /\ p[2] - at[2] \in 0..(size[2] - 1)
            THEN Pixel(stem, p[1] - at[1], p[2] - at[2])
            ELSE canvas.px[p]]]

\* CanvasSize with the two branches exchanged
CanvasSizeSwapped(dir, width, height, n) ==
    IF dir = "horizontal" THEN <<width, height * n>> ELSE <<width * n, height>>

\* (total_width, total_height)
CanvasSize(dir, width, height, n) ==
    IF dir = "horizontal" THEN <<width * n, height>> ELSE <<width, height * n>>

\* NextOffset without `x_offset += width` / `y_offset += height`
NextOffsetStuck(dir, offset, width, height) == offset

\* the offset of the paste that follows one at `offset`
NextOffset(dir, offset, width, height) ==
    IF dir = "horizontal" THEN <<offset[1] + width, 0>>
    ELSE <<0, offset[2] + height>>

RECURSIVE PasteFrom(_, _, _, _, _, _, _, _)
\* for img in images: result_img.paste(img, offset); offset += step
\* paste loads the pixel data, and raises when it is cut short.
PasteFrom(canvas, file_paths, i, offset, dir, width, height, disk) ==
    IF i > Len(file_paths) THEN [img |-> canvas, raised |-> FALSE]
    ELSE IF disk[file_paths[i]].kind = "truncated"
    THEN [img |-> canvas, raised |-> TRUE]
    ELSE PasteFrom(Paste(canvas, file_paths[i], disk[file_paths[i]].size, offset),
                   file_paths, i + 1, NextOffset(dir, offset, width, height),
                   dir, width, height, disk)

\* What the environment does to one call: nothing; the i-th file cannot be
\* opened any more; the save fails before the output file is created; the
\* save fails after part of the file is written.
Faults(n) ==
    {[kind |-> "none", at |-> 0], [kind |-> "save_early", at |-> 0],
     [kind |-> "save_partial", at |-> 0]}
        \cup {[kind |-> "open", at |-> i] : i \in 1..n}

ConcatResult(ok, raised, open, written, img) ==
    [ok |-> ok, raised |-> raised, open |-> open, written |-> written, img |-> img]

\* the handles the function closes before returning after an exception
ClosedOnError(opened) == {}

concatenate_images(file_paths, dir, disk, fault) ==
    IF file_paths = << >> THEN ConcatResult(FALSE, FALSE, {}, "none", NoImage)
    ELSE
    LET n == Len(file_paths)
        failing == { i \in 1..n : \/ OpenRaises(disk[file_paths[i]])
                                  \/ fault = [kind |-> "open", at |-> i] }
        opened(k) == { file_paths[i] : i \in 1..k }
    IN
    IF failing # {}
    THEN LET k == CHOOSE i \in failing : \A j \in failing : i <= j
         IN ConcatResult(FALSE, TRUE, opened(k - 1) \ ClosedOnError(opened(k - 1)),
                         "none", NoImage)
    ELSE
    LET width == disk[file_paths[1]].size[1]
        height == disk[file_paths[1]].size[2]
        total == CanvasSize(dir, width, height, n)
        pasted == PasteFrom(NewImage(total[1], total[2]), file_paths, 1, <<0, 0>>,
                            dir, width, height, disk)
        leaked == opened(n) \ ClosedOnError(opened(n))
    IN
    IF pasted.raised THEN ConcatResult(FALSE, TRUE, leaked, "none", NoImage)
    ELSE IF fault.kind = "save_early"
    THEN ConcatResult(FALSE, TRUE, leaked, "none", NoImage)
    ELSE IF fault.kind = "save_partial"
    THEN ConcatResult(FALSE, TRUE, leaked, "partial", NoImage)
    ELSE ConcatResult(TRUE, FALSE, {}, "complete", pasted.img)

----------------------------------------------------------------------------
(* open_file_explorer *)

Systems == {"Windows", "Darwin", "Linux"}

\* subprocess.run without check=True: the command runs and exits 0, runs and
\* exits non-zero (no exception), or cannot be started (OSError).
LaunchOutcomes == {"ok", "nonzero", "raise"}

NoCommand == [prog |-> "", flag |-> "", target |-> << >>]

RevealCommand(system, file_path) ==
    IF system = "Windows"
    THEN [prog |-> "explorer", flag |-> "/select,", target |-> file_path]
    ELSE IF system = "Darwin"
    THEN [prog |-> "open", flag |-> "-R", target |-> file_path]
    ELSE [prog |-> "xdg-open", flag |-> "", target |-> DirName(file_path)]

\* open_file_explorer without its try/except
open_file_explorer_uncaught(file_path, system, outcome) ==
    [cmd |-> RevealCommand(system, file_path),
     logged |-> FALSE,
     propagated |-> outcome = "raise"]

\* cmd: what was handed to subprocess.run; logged: the except branch printed;
\* propagated: an exception left the function.
open_file_explorer(file_path, system, outcome) ==
    [cmd |-> RevealCommand(system, file_path),
     logged |-> outcome = "raise",
     propagated |-> FALSE]

----------------------------------------------------------------------------
(* main: the prompts *)

\* Lines typed at the folder prompt:
\* "1", "2", "3", "0", "01", "12", " 2 ", superscript two,
\* "a", "./a", "b", ""
FolderInputs ==
    {<<49>>, <<50>>, <<51>>, <<48>>, <<48, 49>>, <<49, 50>>, <<32, 50, 32>>, <<178>>,
     <<97>>, <<46, 47, 97>>, <<98>>, << >>}

\* "1", "2", "3", "", " 1", "2 "
DirectionInputs == {<<49>>, <<50>>, <<51>>, << >>, <<32, 49>>, <<50, 32>>}

\* "y", "Y", "yes", "n", "NO", " n", "x", ""
AnswerInputs ==
    {<<121>>, <<89>>, <<121, 101, 115>>, <<110>>, <<78, 79>>, <<32, 110>>,
     <<120>>, << >>}

Yes == {<<121>>, <<121, 101, 115>>}
No == {<<110>>, <<110, 111>>}

\* FolderChoice without the `continue` after an invalid number: the line is
\* then tried as a path.
FolderChoiceFallThrough(inp, folders) ==
    IF IsDigit(inp) /\ ~IntRaises(inp)
          /\ 0 <= IntOf(inp) - 1 /\ IntOf(inp) - 1 < Len(folders)
    THEN [chosen |-> TRUE, folder |-> folders[IntOf(inp)], msg |-> ""]
    ELSE IF Exists(inp)
    THEN [chosen |-> TRUE, folder |-> inp, msg |-> ""]
    ELSE [chosen |-> FALSE, folder |-> Unbound, msg |-> "FolderNotFound"]

\* One pass of the folder prompt on the stripped line `inp`: whether the loop
\* breaks, with which folder, and the message printed otherwise.
FolderChoice(inp, folders) ==
    IF IsDigit(inp)
    THEN IF IntRaises(inp)
         THEN [chosen |-> FALSE, folder |-> Unbound, msg |-> "EnterValid"]
         ELSE LET folder_index == IntOf(inp) - 1
              IN IF 0 <= folder_index /\ folder_index < Len(folders)
                 THEN [chosen |-> TRUE, folder |-> folders[folder_index + 1],
                       msg |-> ""]
                 ELSE [chosen |-> FALSE, folder |-> Unbound,
                       msg |-> "InvalidNumber"]
    ELSE IF Exists(inp)
    THEN [chosen |-> TRUE, folder |-> inp, msg |-> ""]
    ELSE [chosen |-> FALSE, folder |-> Unbound, msg |-> "FolderNotFound"]

\* AfterCheck without `if not sizes_match: return`
AfterCheckAlways(ok) == "direction"

\* where main goes after check_image_sizes returned sizes_match
AfterCheck(ok) == IF ok THEN "direction" ELSE "done"

\* One pass of the direction prompt
DirectionChoice(inp) ==
    IF inp = <<49>> THEN "vertical"
    ELSE IF inp = <<50>> THEN "horizontal"
    ELSE ""

\* timestamp = now().strftime("%Y%m%d_%H%M%S"); only the seconds move here
FormatTime(t) == DatePrefix \o <<48 + (t \div 10), 48 + (t % 10)>>

\* str(Path('concatenated') / f"{timestamp}_{random_suffix}.png")
OutputPath(t, random_suffix) ==
    OutputDirName \o <<47>> \o FormatTime(t) \o <<95>> \o Decimal(random_suffix)
        \o PngExt

Suffixes == RandLow..(RandLow + NumSuffixes - 1)

----------------------------------------------------------------------------
(* The state machine *)

NoOutputs == [p \in {} |-> [run |-> 0, complete |-> FALSE, img |-> NoImage]]

FreshRun ==
    /\ image_folders = << >>
    /\ folder_input = Unbound
    /\ selected_folder = Unbound
    /\ segment_files = << >>
    /\ sizes_match = FALSE
    /\ base_size = None
    /\ direction = ""
    /\ output_path = Unbound
    /\ success = FALSE
    /\ launched = NoCommand
    /\ open_handles = {}
    /\ printed = {}
    /\ prompt_msg = ""
    /\ pc = "start"

Init ==
    /\ FreshRun
    /\ runNo = 1
    /\ now = 0
    /\ fs \in Worlds
    /\ output_dir_exists = FALSE
    /\ outputs = NoOutputs

\* Step 1: find_image_folders()
Discover ==
    /\ pc = "start"
    /\ image_folders' = find_image_folders
    /\ IF find_image_folders = << >>
       THEN pc' = "done" /\ printed' = printed \cup {"NoFolders"}
       ELSE pc' = "select_folder" /\ UNCHANGED printed
    /\ UNCHANGED <<prompt_msg, runNo, now, fs, output_dir_exists, outputs, folder_input,
                   selected_folder, segment_files, sizes_match, base_size,
                   direction, output_path, success, open_handles, launched>>

\* Step 2: one pass of the folder prompt
SelectFolder(line) ==
    /\ pc = "select_folder"
    /\ LET c == FolderChoice(Strip(line), image_folders)
       IN /\ folder_input' = Strip(line)
          /\ IF c.chosen
             THEN /\ selected_folder' = c.folder
                  /\ pc' = "find_segments"
                  /\ prompt_msg' = ""
             ELSE /\ prompt_msg' = c.msg
                  /\ UNCHANGED <<selected_folder, pc>>
    /\ UNCHANGED <<runNo, now, fs, output_dir_exists, outputs, image_folders,
                   segment_files, sizes_match, base_size, direction,
                   output_path, success, open_handles, printed, launched>>

\* Step 3: find_segment_files(selected_folder)
FindSegments ==
    /\ pc = "find_segments"
    /\ segment_files' = find_segment_files(selected_folder)
    /\ IF find_segment_files(selected_folder) = << >>
       THEN pc' = "done" /\ printed' = printed \cup {"NoSegments"}
       ELSE pc' = "check" /\ UNCHANGED printed
    /\ UNCHANGED <<prompt_msg, runNo, now, fs, output_dir_exists, outputs, image_folders,
                   folder_input, selected_folder, sizes_match, base_size,
                   direction, output_path, success, open_handles, launched>>

\* Step 4: check_image_sizes(segment_files)
CheckSizes ==
    /\ pc = "check"
    /\ LET r == check_image_sizes(segment_files, Disk(selected_folder))
       IN /\ sizes_match' = r.ok
          /\ base_size' = r.size
          /\ open_handles' = open_handles \cup r.open
          /\ pc' = AfterCheck(r.ok)
          /\ printed' = printed
                \cup (IF r.raised THEN {"SizeCheckError"} ELSE {})
                \cup (IF AfterCheck(r.ok) = "done" THEN {"SizeMismatch"}
                      ELSE {"SizesMatch"})
    /\ UNCHANGED <<prompt_msg, runNo, now, fs, output_dir_exists, outputs, image_folders,
                   folder_input, selected_folder, segment_files, direction,
                   output_path, success, launched>>

\* Step 5: one pass of the direction prompt
ChooseDirection(line) ==
    /\ pc = "direction"
    /\ IF DirectionChoice(Strip(line)) # ""
       THEN /\ direction' = DirectionChoice(Strip(line))
            /\ pc' = "prepare"
            /\ prompt_msg' = ""
       ELSE /\ prompt_msg' = "EnterOneOrTwo"
            /\ UNCHANGED <<direction, pc>>
    /\ UNCHANGED <<runNo, now, fs, output_dir_exists, outputs, image_folders,
                   folder_input, selected_folder, segment_files, sizes_match,
                   base_size, output_path, success, open_handles, printed,
                   launched>>

\* Step 6: mkdir(exist_ok=True), the timestamp and the random suffix
PrepareOutput(random_suffix) ==
    /\ pc = "prepare"
    /\ output_dir_exists' = TRUE
    /\ output_path' = OutputPath(now, random_suffix)
    /\ pc' = "concat"
    /\ UNCHANGED <<prompt_msg, runNo, now, fs, outputs, image_folders, folder_input,
                   selected_folder, segment_files, sizes_match, base_size,
                   direction, success, open_handles, printed, launched>>

\* the files under concatenated/ after a call that wrote `written` to `path`
Written(path, r) ==
    IF r.written = "none" THEN outputs
    ELSE [p \in DOMAIN outputs \cup {path} |->
            IF p = path
            THEN [run |-> runNo, complete |-> r.written = "complete",
                  img |-> r.img]
            ELSE outputs[p]]

\* Step 7: concatenate_images(segment_files, direction, str(output_path))
Concatenate(fault) ==
    /\ pc = "concat"
    /\ LET r == concatenate_images(segment_files, direction,
                                   Disk(selected_folder), fault)
       IN /\ success' = r.ok
          /\ outputs' = Written(output_path, r)
          /\ open_handles' = open_handles \cup r.open
          /\ printed' = printed
                \cup (IF r.raised THEN {"ConcatError"} ELSE {})
                \cup (IF r.ok THEN {"ConcatDone"} ELSE {"ConcatFailed"})
          /\ pc' = IF r.ok THEN "ask_open" ELSE "done"
    /\ UNCHANGED <<prompt_msg, runNo, now, fs, output_dir_exists, image_folders,
                   folder_input, selected_folder, segment_files, sizes_match,
                   base_size, direction, output_path, launched>>

\* Step 8: one pass of the y/n prompt, with open_file_explorer on yes
AskOpen(line, system, outcome) ==
    /\ pc = "ask_open"
    /\ LET answer == Lower(Strip(line))
           r == open_file_explorer(output_path, system, outcome)
       IN IF answer \in Yes
          THEN /\ launched' = r.cmd
               /\ prompt_msg' = ""
               /\ IF r.propagated
                  THEN pc' = "crashed" /\ UNCHANGED printed
                  ELSE /\ pc' = "done"
                       /\ printed' = printed
                             \cup (IF r.logged THEN {"ExplorerError"} ELSE {})
                             \cup {"Finished"}
          ELSE IF answer \in No
          THEN /\ pc' = "done"
               /\ printed' = printed \cup {"Finished"}
               /\ prompt_msg' = ""
               /\ UNCHANGED launched
          ELSE /\ prompt_msg' = "EnterYN"
               /\ UNCHANGED <<pc, launched, printed>>
    /\ UNCHANGED <<runNo, now, fs, output_dir_exists, outputs, image_folders,
                   folder_input, selected_folder, segment_files, sizes_match,
                   base_size, direction, output_path, success, open_handles>>

\* The clock moves on.
Tick ==
    /\ now < MaxTime
    /\ now' = now + 1
    /\ UNCHANGED <<prompt_msg, pc, runNo, fs, output_dir_exists, outputs, image_folders,
                   folder_input, selected_folder, segment_files, sizes_match,
                   base_size, direction, output_path, success, open_handles,
                   printed, launched>>

\* The process has exited (its handles are gone with it) and the program is
\* started again in the same working directory.
Restart ==
    /\ pc = "done"
    /\ runNo < MaxRuns
    /\ runNo' = runNo + 1
    /\ pc' = "start"
    /\ image_folders' = << >>
    /\ folder_input' = Unbound
    /\ selected_folder' = Unbound
    /\ segment_files' = << >>
    /\ sizes_match' = FALSE
    /\ base_size' = None
    /\ direction' = ""
    /\ output_path' = Unbound
    /\ success' = FALSE
    /\ launched' = NoCommand
    /\ open_handles' = {}
    /\ printed' = {}
    /\ prompt_msg' = ""
    /\ UNCHANGED <<now, fs, output_dir_exists, outputs>>

Next ==
    \/ Discover
    \/ \E line \in FolderInputs : SelectFolder(line)
    \/ FindSegments
    \/ CheckSizes
    \/ \E line \in DirectionInputs : ChooseDirection(line)
    \/ \E random_suffix \in Suffixes : PrepareOutput(random_suffix)
    \/ \E fault \in Faults(Len(segment_files)) : Concatenate(fault)
    \/ \E line \in AnswerInputs, system \in Systems, outcome \in LaunchOutcomes :
          AskOpen(line, system, outcome)
    \/ Tick

\* One run of the program, over every content of the segment folder.
Spec == Init /\ [][Next]_vars

\* Two well-formed segments of one size, and the program run again and again.
InitRerun ==
    /\ Init
    /\ fs = World([s \in {<<49>>, <<50>>} |-> [size |-> <<2, 1>>, kind |-> "ok"]],
                  TRUE)

NextRerun == Next \/ Restart

SpecRerun == InitRerun /\ [][NextRerun]_vars

----------------------------------------------------------------------------
(* Properties *)

NoFault == [kind |-> "none", at |-> 0]

\* the file behind the i-th path of segment_files
FileOf(i) == Disk(selected_folder)[segment_files[i]]

\* check_image_sizes has returned in this run
Checked == "SizesMatch" \in printed \/ "SizeMismatch" \in printed

AllReadable == \A i \in 1..Len(segment_files) : FileOf(i).kind # "unreadable"

\* two readable fragments differ in width or in height
Mismatch ==
    \E i, j \in 1..Len(segment_files) :
        /\ FileOf(i).kind # "unreadable"
        /\ FileOf(j).kind # "unreadable"
        /\ FileOf(i).size # FileOf(j).size

WrittenThisRun == { p \in DOMAIN outputs : outputs[p].run = runNo }

\* C1: on a non-empty sequence of readable fragments, check_image_sizes
\* returns (True, size of the first fragment) exactly when every fragment
\* has that size, and (False, None) when some fragment, at any position,
\* differs in width or in height.
C1_CheckImageSizes ==
    (Checked /\ AllReadable) =>
        IF \A i \in 1..Len(segment_files) : FileOf(i).size = FileOf(1).size
        THEN sizes_match = TRUE /\ base_size = FileOf(1).size
        ELSE sizes_match = FALSE /\ base_size = None

\* Three readable fragments, the last one alone differing, in height only.
C1_Witness ==
    /\ Checked /\ AllReadable
    /\ Len(segment_files) = 3
    /\ FileOf(2).size = FileOf(1).size
    /\ FileOf(3).size[1] = FileOf(1).size[1]
    /\ FileOf(3).size[2] # FileOf(1).size[2]
    /\ sizes_match = FALSE /\ base_size = None

\* C2: main gets past the size check, builds an output path or writes an
\* output file only in a run where check_image_sizes succeeded on fragments
\* of one size; when the fragments differ in size the run ends with the
\* size-mismatch message, concatenate_images is not called and nothing is
\* written.
C2_OutputOnlyAfterValidation ==
    /\ (\/ pc \in {"direction", "prepare", "concat", "ask_open"}
        \/ output_path # Unbound
        \/ WrittenThisRun # {})
          => (Checked /\ sizes_match = TRUE /\ AllReadable /\ ~Mismatch)
    /\ (Checked /\ Mismatch)
          => /\ pc = "done"
             /\ "SizeMismatch" \in printed
             /\ "ConcatDone" \notin printed /\ "ConcatFailed" \notin printed
             /\ output_path = Unbound
             /\ WrittenThisRun = {}

\* 2x1 then 1x1: the run has ended with the mismatch message and no output.
C2_Witness ==
    /\ Checked
    /\ Len(segment_files) = 2
    /\ FileOf(1).size = <<2, 1>> /\ FileOf(2).size = <<1, 1>>
    /\ pc = "done"
    /\ "SizeMismatch" \in printed
    /\ DOMAIN outputs = {}

\* C3: for n >= 1 validated fragments of common size (w, h) the canvas saved
\* by concatenate_images is exactly (n*w, h) for 'horizontal' and (w, n*h)
\* for 'vertical'.
C3_CanvasSize ==
    success =>
        LET n == Len(segment_files)
            w == base_size[1]
            h == base_size[2]
            out == outputs[output_path]
            total == IF direction = "horizontal" THEN <<n * w, h>>
                     ELSE <<w, n * h>>
        IN /\ n >= 1
           /\ direction \in {"horizontal", "vertical"}
           /\ out.complete
           /\ out.img.size = total
           /\ DOMAIN out.img.px = (0..(total[1] - 1)) \X (0..(total[2] - 1))

\* Three 2x1 fragments stacked vertically give a 2x3 canvas.
C3_Witness ==
    /\ success
    /\ direction = "vertical"
    /\ Len(segment_files) = 3
    /\ base_size = <<2, 1>>
    /\ outputs[output_path].img.size = <<2, 3>>

\* C4: the fragments are taken in lexicographic filename order and the i-th
\* (0-based) is pasted at (i*w, 0) for horizontal and (0, i*h) for vertical:
\* region i of the output holds exactly the pixels of fragment i, every
\* fragment of the folder appears once and every pixel of the output belongs
\* to one fragment.
C4_PasteOrder ==
    success =>
        LET n == Len(segment_files)
            w == base_size[1]
            h == base_size[2]
            px == outputs[output_path].img.px
            at(i, x, y) == IF direction = "horizontal" THEN <<i * w + x, y>>
                           ELSE <<x, i * h + y>>
        IN /\ \A i \in 1..(n - 1) :
                 LexLess(segment_files[i] \o PngExt, segment_files[i + 1] \o PngExt)
           /\ { segment_files[i] : i \in 1..n } = DOMAIN Disk(selected_folder)
           /\ \A i \in 0..(n - 1), x \in 0..(w - 1), y \in 0..(h - 1) :
                 /\ at(i, x, y) \in DOMAIN px
                 /\ px[at(i, x, y)] = Pixel(segment_files[i + 1], x, y)
           /\ \A p \in DOMAIN px :
                 \E i \in 0..(n - 1), x \in 0..(w - 1), y \in 0..(h - 1) :
                     p = at(i, x, y)

\* segment_1, segment_10, segment_2 side by side: segment_10 is in the middle.
C4_Witness ==
    /\ success
    /\ direction = "horizontal"
    /\ segment_files = << <<49>>, <<49, 48>>, <<50>> >>
    /\ base_size = <<2, 1>>
    /\ outputs[output_path].img.px[<<2, 0>>] = Pixel(<<49, 48>>, 0, 0)
    /\ outputs[output_path].img.px[<<5, 0>>] = Pixel(<<50>>, 1, 0)

\* C5: whenever concatenate_images fails, no file, complete or partial,
\* exists at the output path afterwards.
C5_NoFileAfterFailure ==
    "ConcatFailed" \in printed => output_path \notin DOMAIN outputs

\* C6: no image handle opened by check_image_sizes or concatenate_images is
\* still open once the function has returned, on any path.
C6_HandlesReleased == open_handles = {}

\* C7: a run never writes to the path of a file an earlier run produced.
C7_NoOverwrite ==
    [][\A p \in DOMAIN outputs :
          p \in DOMAIN outputs' /\ outputs'[p].run = outputs[p].run]_vars

\* C8: when opening a fragment raises during validation, the run ends
\* without an output file and the failure is reported as a read error, not
\* as a size mismatch.
C8_ReadErrorNotMismatch ==
    "SizeCheckError" \in printed =>
        /\ pc = "done"
        /\ WrittenThisRun = {}
        /\ "SizeMismatch" \notin printed

\* the file at output_path is the one concatenate_images saved in this run
SavedIntact ==
    /\ output_path \in DOMAIN outputs
    /\ outputs[output_path] =
          [run |-> runNo, complete |-> TRUE,
           img |-> concatenate_images(segment_files, direction,
                                      Disk(selected_folder), NoFault).img]

\* C9: no exception leaves open_file_explorer: once the reveal command has
\* been issued, on any platform and whatever its outcome, main has printed
\* its completion message and the saved file is as it was; a launch that
\* raises is only logged.
C9_LaunchFailureNotFatal ==
    /\ pc # "crashed"
    /\ "ExplorerError" \in printed => launched # NoCommand
    /\ launched # NoCommand =>
          /\ pc = "done"
          /\ "Finished" \in printed
          /\ success
          /\ SavedIntact

\* explorer could not be started on Windows: logged, and the run completed.
C9_Witness ==
    /\ "ExplorerError" \in printed
    /\ launched.prog = "explorer"
    /\ pc = "done"
    /\ "Finished" \in printed
    /\ SavedIntact

\* a line str.isdigit() accepts
DigitsOnly(inp) ==
    /\ inp # << >>
    /\ \A i \in 1..Len(inp) : inp[i] \in (48..57) \cup {178}

\* the 1-based index a digits-only line denotes, 0 when it denotes none
IndexOf(inp) ==
    IF \A i \in 1..Len(inp) : inp[i] \in 48..57 THEN IntOf(inp) ELSE 0

\* C10: in a pass of the folder prompt a digits-only line is an index and
\* never a path: an index within 1..len(image_folders) selects that folder,
\* any other digits-only line re-prompts even if a path of that name
\* exists; any other line selects itself if the path exists and re-prompts
\* if not. A rejected line changes nothing else.
C10_FolderSelection ==
    [][(pc = "select_folder" /\ now' = now) =>
          LET inp == folder_input'
              selects(f) == pc' = "find_segments" /\ selected_folder' = f
              reprompts == pc' = "select_folder" /\ selected_folder' = selected_folder
          IN /\ IF DigitsOnly(inp)
                THEN IF IndexOf(inp) \in 1..Len(image_folders)
                     THEN selects(image_folders[IndexOf(inp)])
                     ELSE reprompts
                ELSE IF Exists(inp) THEN selects(inp) ELSE reprompts
             /\ UNCHANGED <<runNo, fs, output_dir_exists, outputs, image_folders,
                            segment_files, sizes_match, base_size, direction,
                            output_path, success, open_handles, printed,
                            launched>>]_vars

\* "2" typed with one folder discovered and a folder named 2 in the working
\* directory: rejected as a number, not taken as the path.
C10_Witness ==
    /\ pc = "select_folder"
    /\ folder_input = <<50>>
    /\ Len(image_folders) = 1
    /\ Exists(<<50>>)
    /\ prompt_msg = "InvalidNumber"
    /\ selected_folder = Unbound

====
